---- MODULE Spec2Model ----
(***************************************************************************)
(* A model of lucidpy: the validated value types (ID, Color), the entity   *)
(* model (Stroke, Style, Shape and its subclasses, Text, Line,             *)
(* ShapeEndpoint), the serializer (_LucidBase.model_dump_json) and the     *)
(* transport client (LucidchartClient.create_document).                    *)
(*                                                                         *)
(* Python strings that a regular expression inspects are sequences of      *)
(* one-character strings; enumerated strings (Literal fields) are TLA+     *)
(* strings.  Floats are fixed-point tenths (10 stands for 1.0).            *)
(***************************************************************************)
EXTENDS Integers, Sequences, FiniteSets, TLC

VARIABLES
    vres,       \* validators: the last ID.validate / Color.validate call and its outcome
    dres,       \* serializer: the last model_dump_json call and its output
    last,       \* entity model: the last constructor call and its outcome
    shapes,     \* entity model: the live Shape objects (their mutable fields)
    endpoints,  \* entity model: the live ShapeEndpoint objects
    files,      \* client: the temporary archive files on disk
    handles,    \* client: the open read handles on archive files
    requests,   \* client: the HTTP requests issued so far
    cres        \* client: the last create_document call and its outcome

vars == <<vres, dres, last, shapes, endpoints, files, handles, requests, cres>>

validateVars == <<vres>>
dumpVars == <<dres>>
entityVars == <<last, shapes, endpoints>>
clientVars == <<files, handles, requests, cres>>

NoCall == [op |-> "none"]

(***************************************************************************)
(* Bounds of the model.                                                    *)
(***************************************************************************)
\* longest string enumerated character by character
MaxLen == 2

(***************************************************************************)
(* Python values.                                                          *)
(***************************************************************************)
PyNone == [tag |-> "None"]
PyInt(n) == [tag |-> "int", n |-> n]
PyStr(s) == [tag |-> "str", s |-> s]
\* a float, in tenths
PyFloat(n) == [tag |-> "float", n |-> n]
\* an instance of ID (a subclass of str), as ID("...") makes one
PyID(s) == [tag |-> "ID", s |-> s]

\* 1.0 and 0.5 in tenths
One == 10
Half == 5

\* the number a numeric value stands for, in tenths
Num(v) == IF v.tag = "int" THEN v.n * One ELSE v.n

\* isinstance(v, str): ID and Color are subclasses of str
IsStr(v) == v.tag \in {"str", "ID"}

Rep(c, n) == [i \in 1..n |-> c]

NL == "\n"

(***************************************************************************)
(* Validated value types.                                                  *)
(***************************************************************************)
Lower == {"a","b","c","d","e","f","g","h","i","j","k","l","m",
          "n","o","p","q","r","s","t","u","v","w","x","y","z"}
Upper == {"A","B","C","D","E","F","G","H","I","J","K","L","M",
          "N","O","P","Q","R","S","T","U","V","W","X","Y","Z"}
Digit == {"0","1","2","3","4","5","6","7","8","9"}

\* [a-zA-Z0-9\-\_\.\~]
IdChars == Lower \cup Upper \cup Digit \cup {"-", "_", ".", "~"}
\* [0-9a-fA-F]
HexChars == Digit \cup {"a","b","c","d","e","f"} \cup {"A","B","C","D","E","F"}

IdMinLen == 1
IdMaxLen == 36
HexGroup == 3
HexGroupsMax == 2

\* Python's '$' (no MULTILINE): the end of the string, or just before a
\* newline that is the last character of the string.
AtEnd(s, n) ==
    \/ n = Len(s)
    \/ n = Len(s) - 1 /\ s[Len(s)] = NL

\* re.match(r"^[a-zA-Z0-9\-\_\.\~]{1,36}$", s)
ReMatchID(s) ==
    \E n \in IdMinLen..IdMaxLen :
        /\ n <= Len(s)
        /\ \A i \in 1..n : s[i] \in IdChars
        /\ AtEnd(s, n)

\* re.match(r"^#(?:[0-9a-fA-F]{3}){1,2}$", s)
ReMatchColor(s) ==
    /\ Len(s) >= 1
    /\ s[1] = "#"
    /\ \E k \in 1..HexGroupsMax :
          LET n == 1 + HexGroup * k IN
          /\ n <= Len(s)
          /\ \A i \in 2..n : s[i] \in HexChars
          /\ AtEnd(s, n)

Returned(v) == [outcome |-> "return", value |-> v]
Raised(e) == [outcome |-> e, value |-> PyNone]

ID_validate(v) ==
    IF ~IsStr(v) THEN Raised("TypeError")
    ELSE IF ~ReMatchID(v.s) THEN Raised("ValueError")
    ELSE Returned(v)

Color_validate(v) ==
    IF ~IsStr(v) THEN Raised("TypeError")
    ELSE IF ~ReMatchColor(v.s) THEN Raised("ValueError")
    ELSE Returned(v)

\* The inputs tried: every string of at most MaxLen characters over InChars,
\* strings made of a prefix, a run of one character and a suffix (to reach
\* the lengths around 3, 6 and 36), and non-string values.
InChars == {"a", "F", "0", "-", "!", "#", "g", NL}

RECURSIVE StringsUpTo(_)
StringsUpTo(n) ==
    IF n = 0 THEN {<<>>}
    ELSE LET shorter == StringsUpTo(n - 1) IN
         shorter \cup {Append(s, c) : s \in shorter, c \in InChars}

RunLens ==
    (1..(HexGroup * HexGroupsMax + 1)) \cup ((IdMaxLen - 1)..(IdMaxLen + 1))

RunStrings ==
    {p \o Rep(c, n) \o q :
        p \in {<<>>, <<"#">>}, c \in {"a", "F", "0"}, n \in RunLens,
        q \in StringsUpTo(1)}

InStrings == StringsUpTo(MaxLen) \cup RunStrings

ValidateInputs ==
    {PyStr(s) : s \in InStrings} \cup {PyInt(1234567890), PyNone}

ValidateInit == vres = NoCall

CallIDValidate ==
    \E v \in ValidateInputs :
        /\ vres' = [op |-> "ID.validate", arg |-> v, res |-> ID_validate(v)]
        /\ UNCHANGED <<dumpVars, entityVars, clientVars>>

CallColorValidate ==
    \E v \in ValidateInputs :
        /\ vres' = [op |-> "Color.validate", arg |-> v, res |-> Color_validate(v)]
        /\ UNCHANGED <<dumpVars, entityVars, clientVars>>

(***************************************************************************)
(* Serializer: _LucidBase.model_dump_json.                                 *)
(***************************************************************************)
\* longest list inside a serialized entity tree
MaxListLen == 2

\* a pydantic model instance (its __dict__), a dict and a list
PyModel(cls, f) == [tag |-> "model", cls |-> cls, fields |-> f]
PyDict(f) == [tag |-> "dict", items |-> f]
PyList(q) == [tag |-> "list", items |-> q]

\* Python's v == 0
PyEqZero(v) == v.tag \in {"int", "float"} /\ v.n = 0

\* variant: a truthiness test, which drops zero along with None
KeepTruthy(v, ignore_null) ==
    (v.tag # "None" /\ ~PyEqZero(v)) \/ ~ignore_null

\* the filter of each comprehension: v is not None or not ignore_null or v == 0
Keep(v, ignore_null) ==
    v.tag # "None" \/ ~ignore_null \/ PyEqZero(v)

RECURSIVE recursive_model_dump(_, _)
recursive_model_dump(obj, ignore_null) ==
    CASE obj.tag = "model" ->
            PyDict([k \in {k \in DOMAIN obj.fields : Keep(obj.fields[k], ignore_null)} |->
                        recursive_model_dump(obj.fields[k], ignore_null)])
      [] obj.tag = "list" ->
            LET kept == SelectSeq(obj.items, LAMBDA item : Keep(item, ignore_null)) IN
            PyList([i \in 1..Len(kept) |-> recursive_model_dump(kept[i], ignore_null)])
      [] obj.tag = "dict" ->
            PyDict([key \in {key \in DOMAIN obj.items : Keep(obj.items[key], ignore_null)} |->
                        recursive_model_dump(obj.items[key], ignore_null)])
      [] OTHER -> obj

\* json.dumps: the JSON document of a Python value (None is written null)
RECURSIVE JsonDumps(_)
JsonDumps(data) ==
    CASE data.tag = "dict" ->
            [tag |-> "object", members |-> [k \in DOMAIN data.items |-> JsonDumps(data.items[k])]]
      [] data.tag = "list" ->
            [tag |-> "array", elems |-> [i \in 1..Len(data.items) |-> JsonDumps(data.items[i])]]
      [] data.tag = "None" -> [tag |-> "null"]
      [] data.tag = "int" -> [tag |-> "number", float |-> FALSE, n |-> data.n]
      [] data.tag = "float" -> [tag |-> "number", float |-> TRUE, n |-> data.n]
      [] OTHER -> [tag |-> "string", s |-> data.s]

model_dump_json(self, ignore_null) == JsonDumps(recursive_model_dump(self, ignore_null))

\* The entity trees serialized: leaves None, 0 and 1; containers of leaves;
\* containers of those; and a root model holding one of each.
Leafs == {PyNone, PyInt(0), PyInt(1)}

RECURSIVE SeqsUpTo(_, _)
SeqsUpTo(S, n) ==
    IF n = 0 THEN {<<>>}
    ELSE LET shorter == SeqsUpTo(S, n - 1) IN
         shorter \cup {Append(q, x) : q \in shorter, x \in S}

Level1 ==
    Leafs
    \cup {PyModel("Stroke", f) : f \in [{"width", "note"} -> Leafs]}
    \cup {PyDict(f) : f \in [{"x", "y"} -> Leafs]}
    \cup {PyList(q) : q \in SeqsUpTo(Leafs, MaxListLen)}

Level2 ==
    Level1
    \cup {PyModel("Style", [stroke |-> v]) : v \in Level1}
    \cup {PyDict([fill |-> v]) : v \in Level1}
    \cup {PyList(<<v>>) : v \in Level1}

DumpRoots == {PyModel("Shape", [style |-> v, opacity |-> w]) : v \in Level2, w \in Leafs}

DumpInit == dres = NoCall

CallModelDumpJson ==
    \E self \in DumpRoots, ignore_null \in BOOLEAN :
        /\ dres' = [op |-> "model_dump_json", self |-> self, ignore_null |-> ignore_null,
                    out |-> model_dump_json(self, ignore_null)]
        /\ UNCHANGED <<validateVars, entityVars, clientVars>>

(***************************************************************************)
(* Entity model: pydantic construction.                                    *)
(***************************************************************************)
\* the outcome of validating one field, and of a constructor call
FOk(v) == [err |-> "none", value |-> v]
FErr(e) == [err |-> e, value |-> PyNone]
Built(obj) == [outcome |-> "ok", obj |-> obj]
Failed(e) == [outcome |-> e, obj |-> PyNone]

Has(kw, k) == k \in DOMAIN kw

\* pydantic validates the fields in declaration order: a ValueError of a
\* validator is collected into the ValidationError raised at the end, any
\* other exception leaves the constructor at once
Construct(cls, order, fr) ==
    LET raw == {i \in 1..Len(order) : fr[order[i]].err \notin {"none", "ValidationError"}} IN
    IF raw # {}
    THEN Failed(fr[order[CHOOSE i \in raw : \A j \in raw : i <= j]].err)
    ELSE IF \E i \in 1..Len(order) : fr[order[i]].err = "ValidationError"
    THEN Failed("ValidationError")
    ELSE Built(PyModel(cls, [k \in DOMAIN fr |-> fr[k].value]))

\* a field declared with a default: the default is taken as it is
WithDefault(kw, k, default, validated) ==
    IF Has(kw, k) THEN validated ELSE FOk(default)

\* a required field
Required(kw, k, validated) ==
    IF Has(kw, k) THEN validated ELSE FErr("ValidationError")

\* a field of a plain type, Optional or not; an int is taken for a float
OfType(v, tags, optional) ==
    IF v.tag = "None" THEN (IF optional THEN FOk(v) ELSE FErr("ValidationError"))
    ELSE IF v.tag = "int" /\ "float" \in tags /\ "int" \notin tags THEN FOk(PyFloat(Num(v)))
    ELSE IF v.tag \in tags THEN FOk(v)
    ELSE FErr("ValidationError")

\* Literal[...]
OfLiteral(v, allowed) ==
    IF v.tag = "str" /\ v.s \in allowed THEN FOk(v) ELSE FErr("ValidationError")

\* an instance of one of the classes
OfClass(v, classes) ==
    IF v.tag = "model" /\ v.cls \in classes THEN FOk(v) ELSE FErr("ValidationError")

\* a field of type ID: pydantic chains ID.validate
ID_field(v) ==
    LET r == ID_validate(v) IN
    IF r.outcome = "return" THEN FOk(r.value)
    ELSE IF r.outcome = "ValueError" THEN FErr("ValidationError")
    ELSE FErr(r.outcome)

\* Field(pattern=...) of Stroke.color: the whole string must match
PatternColor(s) ==
    /\ Len(s) \in {1 + HexGroup * k : k \in 1..HexGroupsMax}
    /\ s[1] = "#"
    /\ \A i \in 2..Len(s) : s[i] \in HexChars

StrokeStyles == {"solid", "dashed", "dotted"}

Stroke_new(kw) ==
    Construct("Stroke", <<"width", "color", "style">>,
        [width |-> WithDefault(kw, "width", PyNone, OfType(kw.width, {"int"}, FALSE)),
         color |-> WithDefault(kw, "color", PyNone,
                      IF kw.color.tag = "str" /\ PatternColor(kw.color.s)
                      THEN FOk(kw.color) ELSE FErr("ValidationError")),
         style |-> WithDefault(kw, "style", PyNone, OfLiteral(kw.style, StrokeStyles))])

Black == <<"#">> \o Rep("0", 6)
White == <<"#">> \o Rep("f", 6)

\* Stroke(color="#000000", width=1, style="solid"), the default of Style.stroke
DefaultStyleStroke ==
    PyModel("Stroke", [width |-> PyInt(1), color |-> PyStr(Black), style |-> PyStr("solid")])

\* the default_factory of Style.fill
DefaultFill == PyDict([type |-> PyStr("color"), color |-> PyStr(White)])

\* variant: the fill is left as given
validate_fill_unchanged(v) == v

\* Style.validate_fill (mode="before")
validate_fill(v) ==
    IF v.tag = "str" THEN PyDict([type |-> PyStr("color"), color |-> v]) ELSE v

Style_new(kw) ==
    Construct("Style", <<"fill", "stroke", "rounding">>,
        [fill |-> WithDefault(kw, "fill", DefaultFill,
                      OfType(validate_fill(kw.fill), {"str", "dict"}, FALSE)),
         stroke |-> WithDefault(kw, "stroke", DefaultStyleStroke,
                      IF kw.stroke.tag = "None" THEN FOk(kw.stroke)
                      ELSE OfClass(kw.stroke, {"Stroke"})),
         rounding |-> WithDefault(kw, "rounding", PyNone, OfType(kw.rounding, {"int"}, TRUE))])

\* Style(), the default of Shape.style
DefaultStyle ==
    PyModel("Style", [fill |-> DefaultFill, stroke |-> DefaultStyleStroke, rounding |-> PyNone])

\* the default of Shape.boundingBox
DefaultBoundingBox ==
    PyDict([x |-> PyInt(0), y |-> PyInt(0), w |-> PyInt(50), h |-> PyInt(50)])

ShapeKinds ==
    {"rectangle", "circle", "cloud", "diamond", "cross", "hexagon", "octagon",
     "isocolesTriangle", "rightTriangle"}

ShapeSubclasses ==
    {"Rectangle", "Circle", "Cloud", "Diamond", "Hexagon", "Octagon",
     "IsocolesTriangle", "RightTriangle", "Cross"}

ShapeClasses == {"Shape"} \cup ShapeSubclasses

\* the default each subclass gives its type field
DefaultType(cls) ==
    CASE cls = "Rectangle" -> "rectangle"
      [] cls = "Circle" -> "circle"
      [] cls = "Cloud" -> "cloud"
      [] cls = "Diamond" -> "diamond"
      [] cls = "Hexagon" -> "hexagon"
      [] cls = "Octagon" -> "octagon"
      [] cls = "IsocolesTriangle" -> "isocolesTriangle"
      [] cls = "RightTriangle" -> "rightTriangle"
      [] cls = "Cross" -> "cross"

\* Shape declares type a Literal of the 9 kinds and requires it; every
\* subclass redeclares it as  type: str = "<kind>"
Shape_type(cls, kw) ==
    IF cls = "Shape"
    THEN Required(kw, "type", OfLiteral(kw.type, ShapeKinds))
    ELSE WithDefault(kw, "type", PyStr(DefaultType(cls)), OfType(kw.type, {"str"}, FALSE))

\* Cross.indent_must_be_between_0_and_0_5: the message of its ValueError
\* reads field.name, which the ValidationInfo it is handed does not have
indent_must_be_between_0_and_0_5(v) ==
    IF v.tag # "None" /\ ~(0 <= Num(v) /\ Num(v) <= Half)
    THEN FErr("AttributeError")
    ELSE FOk(v)

\* Optional[float] = 0, then the validator
Cross_indent(kw, k) ==
    WithDefault(kw, k, PyInt(0),
        LET f == OfType(kw[k], {"float"}, TRUE) IN
        IF f.err # "none" THEN f ELSE indent_must_be_between_0_and_0_5(f.value))

ShapeFieldOrder ==
    <<"id", "type", "text", "style", "opacity", "note", "boundingBox">>

Shape_fields(cls, kw) ==
    [id |-> Required(kw, "id", ID_field(kw.id)),
     type |-> Shape_type(cls, kw),
     text |-> WithDefault(kw, "text", PyStr(""), OfType(kw.text, {"str"}, TRUE)),
     style |-> WithDefault(kw, "style", DefaultStyle,
                  IF kw.style.tag = "dict"
                  THEN LET s == Style_new(kw.style.items) IN
                       IF s.outcome = "ok" THEN FOk(s.obj) ELSE FErr(s.outcome)
                  ELSE OfClass(kw.style, {"Style"})),
     opacity |-> WithDefault(kw, "opacity", PyNone, OfType(kw.opacity, {"int"}, TRUE)),
     note |-> WithDefault(kw, "note", PyNone, OfType(kw.note, {"str"}, TRUE)),
     boundingBox |-> WithDefault(kw, "boundingBox", DefaultBoundingBox,
                        OfType(kw.boundingBox, {"dict"}, FALSE))]

\* Shape(...) and each subclass
Shape_new(cls, kw) ==
    IF cls = "Cross"
    THEN Construct(cls, ShapeFieldOrder \o <<"x", "y">>,
             [k \in {"x", "y"} |-> Cross_indent(kw, k)] @@ Shape_fields(cls, kw))
    ELSE Construct(cls, ShapeFieldOrder, Shape_fields(cls, kw))

TextSides == {"top", "middle", "bottom"}

\* Field(0.5, ge=0.0, le=1.0)
Text_position(v) ==
    LET f == OfType(v, {"float"}, FALSE) IN
    IF f.err # "none" THEN f
    ELSE IF 0 <= Num(f.value) /\ Num(f.value) <= One THEN f
    ELSE FErr("ValidationError")

Text_new(kw) ==
    Construct("Text", <<"text", "position", "side">>,
        [text |-> Required(kw, "text", OfType(kw.text, {"str"}, FALSE)),
         position |-> WithDefault(kw, "position", PyFloat(Half), Text_position(kw.position)),
         side |-> WithDefault(kw, "side", PyStr("middle"), OfLiteral(kw.side, TextSides))])

EndpointStyles ==
    {"none", "aggregation", "arrow", "hollowArrow", "openArrow", "async1", "async2",
     "closedSquare", "openSquare", "bpmnConditional", "bpmnDefault", "closedCircle",
     "openCircle", "composition", "exactlyOne", "generalization", "many", "nesting",
     "one", "oneOrMore", "zeroOrMore", "zeroOrOne"}

EndpointClasses == {"Endpoint", "ShapeEndpoint", "LineEndpoint"}

\* a reference to a live object, and the object a value denotes
PyRef(a) == [tag |-> "ref", addr |-> a]
Deref(v, heap) == IF v.tag = "ref" THEN heap[v.addr] ELSE v

\* isinstance(v, Shape)
IsShape(v, heap) ==
    LET o == Deref(v, heap) IN o.tag = "model" /\ o.cls \in ShapeClasses

\* values.get("shapeId")
Get(values, k) == IF Has(values, k) THEN values[k] ELSE PyNone

\* variant: the Shape passed as shapeId is kept as the object it is
check_shape_keeps_object(values, heap) ==
    LET shapeId == Get(values, "shapeId") IN
    IF IsShape(shapeId, heap)
    THEN [raised |-> FALSE, values |-> values]
    ELSE IF shapeId.tag # "ID"
    THEN [raised |-> TRUE, values |-> values]
    ELSE [raised |-> FALSE, values |-> values]

\* ShapeEndpoint.check_shape_or_shapeId (mode="before")
check_shape_or_shapeId(values, heap) ==
    LET shapeId == Get(values, "shapeId") IN
    IF IsShape(shapeId, heap)
    THEN [raised |-> FALSE,
          values |-> [k \in DOMAIN values \cup {"shapeId"} |->
                         IF k = "shapeId" THEN Deref(shapeId, heap).fields.id
                         ELSE values[k]]]
    ELSE IF shapeId.tag # "ID"
    THEN [raised |-> TRUE, values |-> values]
    ELSE [raised |-> FALSE, values |-> values]

\* Optional[Union[ID, Shape]]: None, else ID.validate, whose ValueError lets
\* the union go on to Shape and whose TypeError leaves the constructor
ShapeEndpoint_shapeId(v, heap) ==
    IF v.tag = "None" THEN FOk(v)
    ELSE LET f == ID_field(v) IN
         IF f.err = "ValidationError" /\ IsShape(v, heap) THEN FOk(v) ELSE f

\* variant: only the lower bound is tested
position_no_upper_bound(v) ==
    IF v.tag # "dict" THEN FErr("ValidationError")
    ELSE IF "x" \notin DOMAIN v.items \/ "y" \notin DOMAIN v.items
    THEN FErr("ValidationError")
    ELSE IF ~(0 <= Num(v.items.x) /\ 0 <= Num(v.items.y))
    THEN FErr("ValidationError")
    ELSE FOk(v)

\* ShapeEndpoint.position_must_be_valid, after the dict check of the field
position_must_be_valid(v) ==
    IF v.tag # "dict" THEN FErr("ValidationError")
    ELSE IF "x" \notin DOMAIN v.items \/ "y" \notin DOMAIN v.items
    THEN FErr("ValidationError")
    ELSE IF ~(/\ 0 <= Num(v.items.x) /\ Num(v.items.x) <= One
              /\ 0 <= Num(v.items.y) /\ Num(v.items.y) <= One)
    THEN FErr("ValidationError")
    ELSE FOk(v)

\* the default_factory of ShapeEndpoint.position
DefaultPosition == PyDict([x |-> PyFloat(Half), y |-> PyFloat(Half)])

ShapeEndpoint_new(kw, heap) ==
    LET before == check_shape_or_shapeId(kw, heap)
        values == before.values
    IN  IF before.raised THEN Failed("ValidationError")
        ELSE Construct("ShapeEndpoint", <<"type", "style", "shapeId", "position">>,
                 [type |-> WithDefault(values, "type", PyStr("shapeEndpoint"),
                              OfType(values.type, {"str"}, FALSE)),
                  style |-> WithDefault(values, "style", PyStr("arrow"),
                               OfLiteral(values.style, EndpointStyles)),
                  shapeId |-> Required(values, "shapeId",
                                 ShapeEndpoint_shapeId(values.shapeId, heap)),
                  position |-> WithDefault(values, "position", DefaultPosition,
                                  position_must_be_valid(values.position))])

LineTypes == {"straight", "curved", "elbow"}

\* Stroke(), the default of Line.stroke
DefaultLineStroke ==
    PyModel("Stroke", [width |-> PyNone, color |-> PyNone, style |-> PyNone])

\* List[Text]
Line_text(v) ==
    IF v.tag = "list" /\ \A i \in 1..Len(v.items) : OfClass(v.items[i], {"Text"}).err = "none"
    THEN FOk(v)
    ELSE FErr("ValidationError")

\* lineType: Literal["straight", "curved", "elbow"] = "straight"
Line_lineType(kw) ==
    WithDefault(kw, "lineType", PyStr("straight"), OfLiteral(kw.lineType, LineTypes))

Line_new(kw) ==
    Construct("Line", <<"id", "lineType", "endpoint1", "endpoint2", "stroke", "text">>,
        [id |-> Required(kw, "id", ID_field(kw.id)),
         lineType |-> Line_lineType(kw),
         endpoint1 |-> Required(kw, "endpoint1", OfClass(kw.endpoint1, EndpointClasses)),
         endpoint2 |-> Required(kw, "endpoint2", OfClass(kw.endpoint2, EndpointClasses)),
         stroke |-> WithDefault(kw, "stroke", DefaultLineStroke, OfClass(kw.stroke, {"Stroke"})),
         text |-> WithDefault(kw, "text", PyList(<<PyNone>>), Line_text(kw.text))])

(***************************************************************************)
(* Constructor calls.  Keyword arguments are a function from the names     *)
(* given to their values; Kw drops the names left out of the call.         *)
(***************************************************************************)
Absent == [tag |-> "absent"]
Kw(r) == [k \in {k \in DOMAIN r : r[k].tag # "absent"} |-> r[k]]

GoodId == PyStr(<<"s", "1">>)
OtherId == PyStr(<<"s", "2">>)
BadId == PyStr(<<"s", "!">>)

\* floats tried against the ranges [0, 0.5] and [0, 1]
Floats == {PyFloat(n) : n \in {0 - 1, 0, Half, Half + 1, One, One + 1}}

CustomStroke == PyModel("Stroke", [width |-> PyInt(0), color |-> PyNone, style |-> PyNone])
CustomStyle ==
    PyModel("Style", [fill |-> PyDict([type |-> PyStr("color"), color |-> PyStr(Black)]),
                      stroke |-> CustomStroke, rounding |-> PyNone])
CustomBox == PyDict([x |-> PyInt(0), y |-> PyInt(50), w |-> PyInt(50), h |-> PyInt(50)])

ShapeCalls ==
    {[cls |-> cls, kw |-> Kw([id |-> i, type |-> ty, style |-> sb[1], boundingBox |-> sb[2]])] :
        cls \in ShapeClasses,
        i \in {GoodId, BadId, Absent},
        ty \in {Absent, PyStr("rectangle"), PyStr("cross"), PyStr("banana")},
        sb \in {<<Absent, Absent>>, <<CustomStyle, CustomBox>>}}
    \cup
    {[cls |-> "Cross", kw |-> Kw([id |-> GoodId, x |-> x, y |-> y])] :
        x \in Floats \cup {Absent, PyNone}, y \in Floats \cup {Absent, PyNone}}

NewShape ==
    \E c \in ShapeCalls :
        /\ last' = [op |-> "Shape", cls |-> c.cls, kw |-> c.kw, res |-> Shape_new(c.cls, c.kw)]
        /\ UNCHANGED <<shapes, endpoints, validateVars, dumpVars, clientVars>>

TextCalls ==
    {Kw([text |-> tx, position |-> p, side |-> sd]) :
        tx \in {PyStr("test"), Absent},
        p \in Floats \cup {Absent, PyInt(1), PyInt(2)},
        sd \in {Absent, PyStr("top"), PyStr("beside")}}

NewText ==
    \E kw \in TextCalls :
        /\ last' = [op |-> "Text", cls |-> "Text", kw |-> kw, res |-> Text_new(kw)]
        /\ UNCHANGED <<shapes, endpoints, validateVars, dumpVars, clientVars>>

\* a shape passed by value to a constructor
SomeShape == Shape_new("Rectangle", [id |-> GoodId]).obj

Positions ==
    {PyDict([x |-> x, y |-> y]) : x \in Floats, y \in Floats}
    \cup {PyDict([x |-> PyInt(1), y |-> PyInt(1)]), PyDict([x |-> PyInt(2), y |-> PyInt(0)]),
          PyDict([x |-> PyFloat(Half)]), PyDict([y |-> PyFloat(Half)])}

ShapeEndpointCalls ==
    {Kw([shapeId |-> sid, position |-> p, style |-> st]) :
        sid \in {SomeShape, GoodId, PyID(GoodId.s), Absent},
        p \in Positions \cup {Absent},
        st \in {Absent, PyStr("none"), PyStr("bogus")}}

NewShapeEndpoint ==
    \E kw \in ShapeEndpointCalls :
        /\ last' = [op |-> "ShapeEndpoint", cls |-> "ShapeEndpoint", kw |-> kw,
                    res |-> ShapeEndpoint_new(kw, shapes)]
        /\ UNCHANGED <<shapes, endpoints, validateVars, dumpVars, clientVars>>

SomeEndpoint == ShapeEndpoint_new([shapeId |-> SomeShape], <<>>).obj
OtherEndpoint ==
    ShapeEndpoint_new([shapeId |-> SomeShape, style |-> PyStr("none"),
                       position |-> PyDict([x |-> PyInt(1), y |-> PyInt(1)])], <<>>).obj

LineCalls ==
    {Kw([id |-> i, lineType |-> lt, endpoint1 |-> e1, endpoint2 |-> e2, stroke |-> sk]) :
        i \in {GoodId, BadId},
        lt \in {Absent, PyStr("curved"), PyStr("zigzag")},
        e1 \in {Absent, SomeEndpoint, OtherEndpoint},
        e2 \in {Absent, SomeEndpoint, OtherEndpoint},
        sk \in {Absent, CustomStroke}}

NewLine ==
    \E kw \in LineCalls :
        /\ last' = [op |-> "Line", cls |-> "Line", kw |-> kw, res |-> Line_new(kw)]
        /\ UNCHANGED <<shapes, endpoints, validateVars, dumpVars, clientVars>>

StyleCalls ==
    {Kw([fill |-> f, stroke |-> sk, rounding |-> r]) :
        f \in {Absent, PyStr(White), PyStr(<<"r", "e", "d">>), PyInt(3),
               PyDict([type |-> PyStr("color"), color |-> PyStr(Black)])},
        sk \in {Absent, PyNone, CustomStroke},
        r \in {Absent, PyInt(5)}}

NewStyle ==
    \E kw \in StyleCalls :
        /\ last' = [op |-> "Style", cls |-> "Style", kw |-> kw, res |-> Style_new(kw)]
        /\ UNCHANGED <<shapes, endpoints, validateVars, dumpVars, clientVars>>

StrokeCalls ==
    {Kw([width |-> w, color |-> c, style |-> st]) :
        w \in {Absent, PyInt(0), PyStr(<<"w">>)},
        c \in {Absent, PyStr(Black), PyStr(<<"#", "f", "f", "f">>), PyStr(<<"#", "f", "f">>)},
        st \in {Absent, PyStr("solid"), PyStr("wavy")}}

NewStroke ==
    \E kw \in StrokeCalls :
        /\ last' = [op |-> "Stroke", cls |-> "Stroke", kw |-> kw, res |-> Stroke_new(kw)]
        /\ UNCHANGED <<shapes, endpoints, validateVars, dumpVars, clientVars>>

(***************************************************************************)
(* Lines: LineEndpoint and Line.connect_shapes.                            *)
(***************************************************************************)
\* LineEndpoint.position_must_be_between_0_and_1
position_must_be_between_0_and_1(v) ==
    IF ~(0 <= Num(v) /\ Num(v) <= One) THEN FErr("ValidationError") ELSE FOk(v)

\* position: float, then the validator
LineEndpoint_position(v) ==
    LET f == OfType(v, {"float"}, FALSE) IN
    IF f.err # "none" THEN f ELSE position_must_be_between_0_and_1(f.value)

\* LineEndpoint: line is declared Optional[Line] with no default, which
\* pydantic takes as a required field that may be None
LineEndpoint_new(kw) ==
    Construct("LineEndpoint", <<"type", "style", "line", "line_id", "position">>,
        [type |-> WithDefault(kw, "type", PyStr("lineEndpoint"), OfType(kw.type, {"str"}, FALSE)),
         style |-> WithDefault(kw, "style", PyStr("arrow"), OfLiteral(kw.style, EndpointStyles)),
         line |-> Required(kw, "line",
                     IF kw.line.tag = "None" THEN FOk(kw.line) ELSE OfClass(kw.line, {"Line"})),
         line_id |-> Required(kw, "line_id", ID_field(kw.line_id)),
         position |-> Required(kw, "position", LineEndpoint_position(kw.position))])

SomeLine == Line_new([id |-> OtherId, endpoint1 |-> SomeEndpoint, endpoint2 |-> OtherEndpoint]).obj

LineEndpointCalls ==
    {Kw([line |-> ln, line_id |-> i, position |-> p, style |-> st]) :
        ln \in {Absent, PyNone, SomeLine},
        i \in {GoodId, BadId, Absent},
        p \in Floats \cup {Absent, PyInt(1)},
        st \in {Absent, PyStr("none"), PyStr("bogus")}}

NewLineEndpoint ==
    \E kw \in LineEndpointCalls :
        /\ last' = [op |-> "LineEndpoint", cls |-> "LineEndpoint", kw |-> kw,
                    res |-> LineEndpoint_new(kw)]
        /\ UNCHANGED <<shapes, endpoints, validateVars, dumpVars, clientVars>>

\* Line.connect_shapes: the two assignments, in order; an exception of the
\* first or second ShapeEndpoint(shape=...) call leaves the method there
Line_connect_shapes(self, shape1, shape2, stroke, text) ==
    LET e1 == ShapeEndpoint_new([shape |-> shape1], <<>>)
        e2 == ShapeEndpoint_new([shape |-> shape2], <<>>)
        s1 == [self EXCEPT !.fields.endpoint1 = e1.obj]
    IN  IF e1.outcome # "ok" THEN [outcome |-> e1.outcome, obj |-> self]
        ELSE IF e2.outcome # "ok" THEN [outcome |-> e2.outcome, obj |-> s1]
        ELSE [outcome |-> "ok", obj |-> [s1 EXCEPT !.fields.endpoint2 = e2.obj]]

OtherShape == Shape_new("Circle", [id |-> OtherId]).obj
OtherLine ==
    Line_new([id |-> GoodId, endpoint1 |-> OtherEndpoint, endpoint2 |-> SomeEndpoint,
              stroke |-> CustomStroke]).obj

\* stroke defaults to the Stroke() of the signature, text to None
ConnectCalls ==
    [self : {SomeLine, OtherLine},
     shape1 : {SomeShape, OtherShape},
     shape2 : {SomeShape, OtherShape},
     stroke : {DefaultLineStroke, CustomStroke},
     text : {PyNone, PyStr("test")}]

CallConnectShapes ==
    \E c \in ConnectCalls :
        /\ last' = [op |-> "connect_shapes", cls |-> "Line", kw |-> c,
                    res |-> Line_connect_shapes(c.self, c.shape1, c.shape2, c.stroke, c.text)]
        /\ UNCHANGED <<shapes, endpoints, validateVars, dumpVars, clientVars>>

(***************************************************************************)
(* Assignment to a field of a constructed entity, and its serialization.   *)
(***************************************************************************)
\* variant: an assignment is validated as the constructor validates the field
model_setattr_validated(obj, name, value) ==
    LET f == CASE obj.cls = "Text" /\ name = "position" -> Text_position(value)
               [] obj.cls = "Stroke" /\ name = "color" ->
                      IF value.tag = "str" /\ PatternColor(value.s)
                      THEN FOk(value) ELSE FErr("ValidationError")
               [] name = "id" -> ID_field(value)
               [] OTHER -> FOk(value)
    IN  IF f.err # "none" THEN [outcome |-> f.err, obj |-> obj]
        ELSE Built([obj EXCEPT !.fields[name] = f.value])

\* obj.name = value: no model class sets validate_assignment, so the value
\* goes into the instance's __dict__ as it is
model_setattr(obj, name, value) ==
    Built([obj EXCEPT !.fields[name] = value])

\* the constructor of each class
New(cls, kw) ==
    CASE cls = "Stroke" -> Stroke_new(kw)
      [] cls = "Text" -> Text_new(kw)
      [] cls = "Line" -> Line_new(kw)
      [] OTHER -> Shape_new(cls, kw)

SomeText == Text_new([text |-> PyStr("test")]).obj

\* the entities assigned to: a stroke, a shape, and a line with one text
Subjects ==
    {[cls |-> "Stroke", kw |-> [color |-> PyStr(Black)]],
     [cls |-> "Rectangle", kw |-> [id |-> GoodId]],
     [cls |-> "Line", kw |-> [id |-> GoodId, endpoint1 |-> SomeEndpoint,
                              endpoint2 |-> OtherEndpoint, text |-> PyList(<<SomeText>>)]]}

BuildEntity ==
    \E c \in Subjects :
        /\ last' = [op |-> c.cls, cls |-> c.cls, kw |-> c.kw, res |-> New(c.cls, c.kw)]
        /\ UNCHANGED <<shapes, endpoints, validateVars, dumpVars, clientVars>>

\* the assignments tried, each with values the constructor takes and values
\* it rejects: item 0 is the entity itself, item i its text[i - 1]
Assignments ==
    {[cls |-> "Stroke", item |-> 0, name |-> "color", value |-> v] :
        v \in {PyStr(<<"r", "e", "d">>), PyStr(White)}}
    \cup {[cls |-> c, item |-> 0, name |-> "id", value |-> v] :
            c \in {"Rectangle", "Line"}, v \in {BadId, OtherId}}
    \cup {[cls |-> "Line", item |-> 1, name |-> "position", value |-> v] :
            v \in {PyFloat(One + 1), PyFloat(0 - 1), PyFloat(0)}}

\* the entity an assignment is made on
Target(root, item) == IF item = 0 THEN root ELSE root.fields.text.items[item]

\* entity.name = value, or entity.text[i].name = value
AssignField ==
    \E a \in Assignments :
        /\ last.op # "none" /\ last.res.outcome = "ok" /\ last.cls = a.cls
        /\ LET root == last.res.obj
               r == model_setattr(Target(root, a.item), a.name, a.value)
           IN  last' = [op |-> "setattr", cls |-> last.cls, kw |-> a,
                        res |-> [outcome |-> r.outcome,
                                 obj |-> IF a.item = 0 THEN r.obj
                                         ELSE [root EXCEPT !.fields.text.items[a.item] = r.obj]]]
        /\ UNCHANGED <<shapes, endpoints, validateVars, dumpVars, clientVars>>

\* entity.model_dump_json(ignore_null=...)
DumpEntity ==
    \E ignore_null \in BOOLEAN :
        /\ last.op # "none" /\ last.res.outcome = "ok"
        /\ dres' = [op |-> "model_dump_json", self |-> last.res.obj,
                    ignore_null |-> ignore_null,
                    out |-> model_dump_json(last.res.obj, ignore_null)]
        /\ UNCHANGED <<validateVars, entityVars, clientVars>>

(***************************************************************************)
(* Live objects: shapes that are mutated after endpoints were built on     *)
(* them.  An object is its position in shapes; PyRef names it.             *)
(***************************************************************************)
\* the most shapes and the most endpoints alive
MaxShapes == 2
MaxEndpoints == 2

ThirdId == PyID(<<"s", "3">>)

\* Rectangle(id=...), kept by the caller
HeapNewShape ==
    \E i \in {GoodId, OtherId} :
        LET kw == [id |-> i]
            r == Shape_new("Rectangle", kw)
        IN  /\ Len(shapes) < MaxShapes
            /\ last' = [op |-> "Shape", cls |-> "Rectangle", kw |-> kw, res |-> r]
            /\ shapes' = IF r.outcome = "ok" THEN Append(shapes, r.obj) ELSE shapes
            /\ UNCHANGED <<endpoints, validateVars, dumpVars, clientVars>>

\* shape.id = v: the models do not validate assignments
AssignShapeId ==
    \E a \in 1..Len(shapes), v \in {GoodId, OtherId, BadId} :
        /\ shapes' = [shapes EXCEPT ![a].fields.id = v]
        /\ last' = [op |-> "setattr", cls |-> "Rectangle", kw |-> [id |-> v], res |-> Built(PyRef(a))]
        /\ UNCHANGED <<endpoints, validateVars, dumpVars, clientVars>>

\* ShapeEndpoint(shapeId=...) on a live shape, an ID instance or a raw string
HeapNewShapeEndpoint ==
    \E sid \in {PyRef(a) : a \in 1..Len(shapes)} \cup {ThirdId, GoodId} :
        LET kw == [shapeId |-> sid]
            r == ShapeEndpoint_new(kw, shapes)
        IN  /\ Len(endpoints) < MaxEndpoints
            /\ last' = [op |-> "ShapeEndpoint", cls |-> "ShapeEndpoint", kw |-> kw, res |-> r]
            /\ endpoints' = IF r.outcome = "ok" THEN Append(endpoints, r.obj) ELSE endpoints
            /\ UNCHANGED <<shapes, validateVars, dumpVars, clientVars>>

(***************************************************************************)
(* Transport client: LucidchartClient.create_document.                     *)
(***************************************************************************)
\* the most create_document calls that reach the file system
MaxCalls == 2

BaseUrl == "https://api.lucid.co"
ApiKey == "test-api-key"

\* what the network answers to a request: a failure, or a response
NetworkFailure == [kind |-> "failure"]
HttpResponse(status, body) == [kind |-> "response", status |-> status, body |-> body]

\* response.json(), on the bodies the service is made to answer here
JsonLoads(body) ==
    CASE body = "{\"id\": \"doc1\"}" -> Returned(PyDict([id |-> PyStr("doc1")]))
      [] body = "{\"id\": \"doc2\"}" -> Returned(PyDict([id |-> PyStr("doc2")]))
      [] OTHER -> Raised("JSONDecodeError")

\* response.is_success, which raise_for_status tests
IsSuccess(status) == 200 <= status /\ status <= 299

\* LucidchartClient._make_request: the request sent and what the caller gets
make_request(method, endpoint, parts, response) ==
    [request |-> [method |-> method,
                  url |-> <<BaseUrl, endpoint>>,
                  headers |-> [Authorization |-> <<"Bearer ", ApiKey>>,
                               LucidApiVersion |-> "1"],
                  files |-> parts],
     res |-> IF response.kind = "failure" THEN Raised("TransportError")
             ELSE IF ~IsSuccess(response.status) THEN Raised("HTTPStatusError")
             ELSE JsonLoads(response.body)]

\* variant: the entry is written under the upload's file name
zip_writes_other_name(json) == <<[name |-> "import.lucid", data |-> json]>>

\* ZipFile(zip_filename, "w") with the one writestr: the archive written
zip_write(json) == <<[name |-> "document.json", data |-> json]>>

\* the argument check of create_document
UsageError(document, json) ==
    \/ document.tag = "None" /\ json.s = ""
    \/ document.tag # "None" /\ json.s # ""

\* variant: the handle is closed and the temporary file removed when the
\* request raises
upload_cleans_up(title, document, json, response, io) ==
    LET payload == IF document.tag # "None" THEN model_dump_json(document, TRUE) ELSE json
        zip_filename == Len(io.files) + 1
        written == Append(io.files, zip_write(payload))
        parts == [file |-> [filename |-> "import.lucid",
                            content |-> written[zip_filename],
                            type |-> "x-application/vnd.lucid.standardImport"],
                  product |-> "lucidchart",
                  title |-> title]
        sent == make_request("POST", "/documents", parts, response)
    IN  [io |-> [files |-> IF sent.res.outcome = "return" THEN written ELSE io.files,
                 handles |-> IF sent.res.outcome = "return"
                             THEN Append(io.handles, zip_filename) ELSE io.handles,
                 requests |-> Append(io.requests, sent.request)],
         res |-> sent.res]

\* the rest of create_document: io is the file system and the network
\* traffic so far; a temporary file is named by its place in io.files
upload(title, document, json, response, io) ==
    LET payload == IF document.tag # "None" THEN model_dump_json(document, TRUE) ELSE json
        zip_filename == Len(io.files) + 1
        written == Append(io.files, zip_write(payload))
        parts == [file |-> [filename |-> "import.lucid",
                            content |-> written[zip_filename],
                            type |-> "x-application/vnd.lucid.standardImport"],
                  product |-> "lucidchart",
                  title |-> title]
        sent == make_request("POST", "/documents", parts, response)
    IN  [io |-> [files |-> written,
                 handles |-> Append(io.handles, zip_filename),
                 requests |-> Append(io.requests, sent.request)],
         res |-> sent.res]

\* variant: the temporary file is made before the arguments are checked
create_document_checks_late(title, document, json, response, io) ==
    IF UsageError(document, json)
    THEN [io |-> [io EXCEPT !.files = Append(@, <<>>)], res |-> Raised("ValueError")]
    ELSE upload(title, document, json, response, io)

\* variant: a failed request is sent a second time
create_document_retries(title, document, json, response, io) ==
    IF UsageError(document, json)
    THEN [io |-> io, res |-> Raised("ValueError")]
    ELSE LET once == upload(title, document, json, response, io) IN
         IF once.res.outcome = "return" THEN once
         ELSE [once EXCEPT !.io.requests = Append(@, @[Len(@)])]

create_document(title, document, json, response, io) ==
    IF UsageError(document, json)
    THEN [io |-> io, res |-> Raised("ValueError")]
    ELSE upload(title, document, json, response, io)

SomePage ==
    PyModel("Page", [id |-> PyStr(<<"p", "1">>), title |-> PyStr("test-1"),
                     shapes |-> PyList(<<SomeShape>>), lines |-> PyList(<<>>)])

Documents ==
    {PyModel("Document", [version |-> PyInt(1), pages |-> PyList(<<>>)]),
     PyModel("Document", [version |-> PyInt(1), pages |-> PyList(<<SomePage>>)])}

Responses ==
    {NetworkFailure}
    \cup {HttpResponse(st, b) :
            st \in {200, 201, 302, 404, 500},
            b \in {"{\"id\": \"doc1\"}", "{\"id\": \"doc2\"}", "<html>"}}

CreateDocument ==
    \E title \in {"Test Document", "Other"},
       document \in Documents \cup {PyNone},
       json \in {PyStr(""), PyStr("{\"key\": \"value\"}")},
       response \in Responses :
        LET r == create_document(title, document, json, response,
                     [files |-> files, handles |-> handles, requests |-> requests])
        IN  /\ Len(files) < MaxCalls
            /\ files' = r.io.files
            /\ handles' = r.io.handles
            /\ requests' = r.io.requests
            /\ cres' = [op |-> "create_document", title |-> title, document |-> document,
                        json |-> json,
                        response |-> IF Len(r.io.requests) > Len(requests)
                                     THEN response ELSE [kind |-> "none"],
                        res |-> r.res]
            /\ UNCHANGED <<validateVars, dumpVars, entityVars>>

(***************************************************************************)
(* Initial state and the specifications, one per component.                *)
(***************************************************************************)
EntityInit == last = NoCall /\ shapes = <<>> /\ endpoints = <<>>

ClientInit == files = <<>> /\ handles = <<>> /\ requests = <<>> /\ cres = NoCall

Init == ValidateInit /\ DumpInit /\ EntityInit /\ ClientInit

NextValidate == CallIDValidate \/ CallColorValidate

SpecValidate == Init /\ [][NextValidate]_vars

NextDump == CallModelDumpJson

SpecDump == Init /\ [][NextDump]_vars

NextConstruct ==
    NewShape \/ NewText \/ NewShapeEndpoint \/ NewLine \/ NewStyle \/ NewStroke

SpecConstruct == Init /\ [][NextConstruct]_vars

NextEndpoint == HeapNewShape \/ AssignShapeId \/ HeapNewShapeEndpoint

SpecEndpoint == Init /\ [][NextEndpoint]_vars

NextLine == NewLineEndpoint \/ CallConnectShapes

SpecLine == Init /\ [][NextLine]_vars

NextAssign == BuildEntity \/ AssignField \/ DumpEntity

SpecAssign == Init /\ [][NextAssign]_vars

NextClient == CreateDocument

SpecClient == Init /\ [][NextClient]_vars

(***************************************************************************)
(* Properties.                                                             *)
(***************************************************************************)
\* the patterns as documented: 1 to 36 characters of the ID charset;
\* '#' followed by exactly 3 or exactly 6 hex digits
InIDPattern(s) ==
    /\ Len(s) \in 1..36
    /\ \A i \in 1..Len(s) : s[i] \in IdChars

InColorPattern(s) ==
    /\ Len(s) \in {4, 7}
    /\ s[1] = "#"
    /\ \A i \in 2..Len(s) : s[i] \in HexChars

\* C1: validate(v) returns v unchanged for every string in the type's
\* pattern, raises ValueError for every other string (the empty string and a
\* string with any extra trailing character included) and TypeError for
\* every non-string.
C1_ValidateContract ==
    vres.op # "none" =>
        LET v == vres.arg
            inPattern == IF vres.op = "ID.validate"
                         THEN InIDPattern(v.s) ELSE InColorPattern(v.s)
        IN  IF ~IsStr(v) THEN vres.res.outcome = "TypeError"
            ELSE IF inPattern THEN vres.res = Returned(v)
            ELSE vres.res.outcome = "ValueError"

\* what the serializer owes for one value: an object holds exactly the keys
\* whose value is not None (every key when ignore_null is off), an array the
\* items that are not None, None is written null and a number as itself
RECURSIVE Emitted(_, _, _)
Emitted(obj, js, ignore_null) ==
    CASE obj.tag \in {"model", "dict"} ->
            LET f == IF obj.tag = "model" THEN obj.fields ELSE obj.items IN
            /\ js.tag = "object"
            /\ DOMAIN js.members = {k \in DOMAIN f : ~ignore_null \/ f[k] # PyNone}
            /\ \A k \in DOMAIN js.members : Emitted(f[k], js.members[k], ignore_null)
      [] obj.tag = "list" ->
            LET q == SelectSeq(obj.items, LAMBDA x : ~ignore_null \/ x # PyNone) IN
            /\ js.tag = "array"
            /\ Len(js.elems) = Len(q)
            /\ \A i \in 1..Len(q) : Emitted(q[i], js.elems[i], ignore_null)
      [] obj.tag = "None" -> js = [tag |-> "null"]
      [] obj.tag = "int" -> js = [tag |-> "number", float |-> FALSE, n |-> obj.n]
      [] OTHER -> FALSE

\* C2: model_dump_json omits a key, at every nesting depth, exactly when its
\* value is None and ignore_null is on; zero is emitted as 0; with
\* ignore_null off no key is omitted and None is emitted as null.
C2_OmitsExactlyNone ==
    dres.op # "none" => Emitted(dres.self, dres.out, dres.ignore_null)

\* a default dump of a tree with a None and a zero two levels down: the None
\* key is gone, the zero is there
C2_Witness ==
    /\ dres.op = "model_dump_json"
    /\ dres.ignore_null
    /\ dres.self.fields.opacity = PyNone
    /\ dres.self.fields.style =
           PyModel("Style", [stroke |-> PyModel("Stroke", [width |-> PyInt(0), note |-> PyNone])])
    /\ dres.out = [tag |-> "object", members |->
           [style |-> [tag |-> "object", members |->
               [stroke |-> [tag |-> "object", members |->
                   [width |-> [tag |-> "number", float |-> FALSE, n |-> 0]]]]]]]

\* what reading endpoint.shapeId gives: the stored string, or the object kept
ReadShapeId(e, heap) == Deref(e.fields.shapeId, heap)

\* C3: a ShapeEndpoint built on a live Shape (whose id is an identifier) is
\* constructed and stores the identifier string the shape has at that
\* moment, not the object, and no later step (assigning the shape a new id
\* included) changes what an existing endpoint holds.
C3_EndpointKeepsIdentifier ==
    [][/\ \A j \in 1..Len(endpoints) :
             /\ j <= Len(endpoints')
             /\ ReadShapeId(endpoints'[j], shapes') = ReadShapeId(endpoints[j], shapes)
       /\ (/\ last'.op = "ShapeEndpoint"
           /\ last'.kw.shapeId.tag = "ref"
           /\ InIDPattern(shapes[last'.kw.shapeId.addr].fields.id.s))
             => last'.res.outcome = "ok"
       /\ (/\ last'.op = "ShapeEndpoint"
           /\ last'.kw.shapeId.tag = "ref"
           /\ last'.res.outcome = "ok")
             => LET e == endpoints'[Len(endpoints')] IN
                /\ Len(endpoints') = Len(endpoints) + 1
                /\ IsStr(e.fields.shapeId)
                /\ e.fields.shapeId = shapes[last'.kw.shapeId.addr].fields.id
      ]_vars

\* an endpoint built on the first shape still holds s1 after the shape was
\* given the id s2
C3_Witness ==
    /\ Len(shapes) = 1
    /\ shapes[1].fields.id = OtherId
    /\ Len(endpoints) >= 1
    /\ endpoints[1].fields.shapeId = GoodId
    /\ last.op = "setattr"

\* the call recorded in last, when it is a call of the constructor op
Called(op) == last.op = op
Ok == last.res.outcome = "ok"
NoObject == last.res.outcome # "ok" /\ last.res.obj = PyNone

InRange(v, hi) == 0 <= Num(v) /\ Num(v) <= hi

\* the position argument of a ShapeEndpoint call has x and y, both in [0, 1]
GoodPosition(p) ==
    /\ p.tag = "dict"
    /\ {"x", "y"} \subseteq DOMAIN p.items
    /\ InRange(p.items.x, One)
    /\ InRange(p.items.y, One)

GoodEndpointStyle(kw) == Has(kw, "style") => kw.style.s \in EndpointStyles

\* C4: a ShapeEndpoint built with shapeId given as a raw identifier string in
\* the identifier pattern, with a valid position and style, is constructed
\* and stores that identifier.
C4_RawIdentifierAccepted ==
    (/\ Called("ShapeEndpoint")
     /\ Has(last.kw, "shapeId")
     /\ last.kw.shapeId.tag = "str"
     /\ InIDPattern(last.kw.shapeId.s)
     /\ Has(last.kw, "position") => GoodPosition(last.kw.position)
     /\ GoodEndpointStyle(last.kw))
    => (Ok /\ last.res.obj.fields.shapeId = last.kw.shapeId)

\* C8: a ShapeEndpoint whose position lacks x or y or has one outside [0, 1],
\* a Text whose position is outside [0, 1] and a Cross whose x or y indent is
\* outside [0, 0.5] fail with an error and yield no object; with the values
\* inside the range, the bounds included, construction succeeds.
C8_RangesEnforced ==
    /\ (Called("ShapeEndpoint") /\ Has(last.kw, "position") /\ ~GoodPosition(last.kw.position))
          => NoObject
    /\ (/\ Called("ShapeEndpoint")
        /\ Has(last.kw, "shapeId") /\ last.kw.shapeId.tag \in {"model", "ID"}
        /\ Has(last.kw, "position") /\ GoodPosition(last.kw.position)
        /\ GoodEndpointStyle(last.kw))
          => (Ok /\ last.res.obj.fields.position = last.kw.position)
    /\ (Called("Text") /\ Has(last.kw, "position") /\ ~InRange(last.kw.position, One))
          => NoObject
    /\ (/\ Called("Text") /\ Has(last.kw, "text")
        /\ Has(last.kw, "side") => last.kw.side.s \in TextSides
        /\ Has(last.kw, "position") /\ InRange(last.kw.position, One))
          => (Ok /\ Num(last.res.obj.fields.position) = Num(last.kw.position))
    /\ \A k \in {"x", "y"} :
          (/\ Called("Shape") /\ last.cls = "Cross"
           /\ Has(last.kw, k) /\ last.kw[k].tag # "None" /\ ~InRange(last.kw[k], Half))
             => NoObject
    /\ (/\ Called("Shape") /\ last.cls = "Cross" /\ DOMAIN last.kw \subseteq {"id", "x", "y"}
        /\ Has(last.kw, "id") /\ last.kw.id = GoodId
        /\ \A k \in DOMAIN last.kw \ {"id"} :
              last.kw[k].tag # "None" => InRange(last.kw[k], Half))
          => (Ok /\ \A k \in DOMAIN last.kw \ {"id"} : last.res.obj.fields[k] = last.kw[k])

\* a ShapeEndpoint on a shape with x just above 1 is refused
C8_Witness ==
    /\ Called("ShapeEndpoint")
    /\ Has(last.kw, "shapeId") /\ last.kw.shapeId = SomeShape
    /\ Has(last.kw, "position")
    /\ last.kw.position = PyDict([x |-> PyFloat(One + 1), y |-> PyFloat(One)])
    /\ last.res = Failed("ValidationError")

\* C9: every shape constructed through Shape or one of its subclasses has one
\* of the 9 kinds as its type, and a call with any other type is rejected.
C9_TypeIsOneOfNine ==
    Called("Shape") =>
        /\ Ok => last.res.obj.fields.type.s \in ShapeKinds
        /\ (Has(last.kw, "type") /\ last.kw.type.s \notin ShapeKinds) => ~Ok

\* C10: a shape given only an identifier and a type gets the default style
\* and bounding box; a line given only an identifier and two endpoints gets
\* lineType straight and a default stroke; a Style whose fill is a string s
\* stores {type: color, color: s}.
C10_MinimalDefaults ==
    /\ (/\ Called("Shape") /\ DOMAIN last.kw = {"id", "type"}
        /\ last.kw.id = GoodId /\ last.kw.type.s \in ShapeKinds)
          => /\ Ok
             /\ last.res.obj.fields.id = last.kw.id
             /\ last.res.obj.fields.type = last.kw.type
             /\ last.res.obj.fields.style =
                   PyModel("Style",
                       [fill |-> PyDict([type |-> PyStr("color"),
                                         color |-> PyStr(<<"#", "f", "f", "f", "f", "f", "f">>)]),
                        stroke |-> PyModel("Stroke",
                                       [width |-> PyInt(1),
                                        color |-> PyStr(<<"#", "0", "0", "0", "0", "0", "0">>),
                                        style |-> PyStr("solid")]),
                        rounding |-> PyNone])
             /\ last.res.obj.fields.boundingBox =
                   PyDict([x |-> PyInt(0), y |-> PyInt(0), w |-> PyInt(50), h |-> PyInt(50)])
    /\ (/\ Called("Line") /\ DOMAIN last.kw = {"id", "endpoint1", "endpoint2"}
        /\ last.kw.id = GoodId)
          => /\ Ok
             /\ last.res.obj.fields.lineType = PyStr("straight")
             /\ last.res.obj.fields.stroke =
                   PyModel("Stroke", [width |-> PyNone, color |-> PyNone, style |-> PyNone])
             /\ last.res.obj.fields.endpoint1 = last.kw.endpoint1
             /\ last.res.obj.fields.endpoint2 = last.kw.endpoint2
    /\ (Called("Style") /\ Has(last.kw, "fill") /\ last.kw.fill.tag = "str")
          => /\ Ok
             /\ last.res.obj.fields.fill =
                   PyDict([type |-> PyStr("color"), color |-> last.kw.fill])

\* a Style built from a fill string, and so holding the fill dict
C10_Witness ==
    /\ Called("Style")
    /\ Has(last.kw, "fill") /\ last.kw.fill = PyStr(<<"r", "e", "d">>)
    /\ Ok
    /\ last.res.obj.fields.fill.tag = "dict"

\* the call recorded in c gave both of document and json, or neither
BothOrNeither(c) ==
    \/ c.document.tag = "None" /\ c.json.s = ""
    \/ c.document.tag # "None" /\ c.json.s # ""

\* C5: create_document given both of document and json, or neither, raises
\* ValueError before any I/O: no temporary file, no archive, no open handle
\* and no HTTP request comes of the call.
C5_UsageErrorBeforeIO ==
    [][(cres'.op = "create_document" /\ BothOrNeither(cres'))
          => /\ cres'.res = Raised("ValueError")
             /\ files' = files
             /\ handles' = handles
             /\ requests' = requests
      ]_vars

\* after one upload, a call with both a document and a json string was refused
C5_Witness ==
    /\ cres.op = "create_document"
    /\ cres.document.tag = "model" /\ cres.json.s # ""
    /\ cres.res.outcome = "ValueError"
    /\ Len(files) = 1 /\ Len(requests) = 1

\* C6: a create_document call given exactly one of document and json uploads
\* an archive with the single entry document.json holding the JSON payload
\* (the json string, or document.model_dump_json()), as a POST to /documents
\* with the fields file, product = lucidchart and title = the caller's title,
\* and what it returns is the decoded response body.
C6_UploadsSingleEntryArchive ==
    (cres.op = "create_document" /\ ~BothOrNeither(cres)) =>
        LET archive == files[Len(files)]
            request == requests[Len(requests)]
            payload == IF cres.document.tag = "None" THEN cres.json
                       ELSE model_dump_json(cres.document, TRUE)
        IN  /\ Len(archive) = 1
            /\ archive[1].name = "document.json"
            /\ archive[1].data = payload
            /\ request.method = "POST"
            /\ request.url = <<"https://api.lucid.co", "/documents">>
            /\ DOMAIN request.files = {"file", "product", "title"}
            /\ request.files.file.content = archive
            /\ request.files.product = "lucidchart"
            /\ request.files.title = cres.title
            /\ cres.res.outcome = "return" =>
                  cres.res.value = JsonLoads(cres.response.body).value

\* a document was uploaded and the call returned the decoded body
C6_Witness ==
    /\ cres.op = "create_document"
    /\ cres.document.tag = "model" /\ cres.json.s = ""
    /\ cres.response = HttpResponse(201, "{\"id\": \"doc1\"}")
    /\ cres.res = Returned(PyDict([id |-> PyStr("doc1")]))
    /\ files[Len(files)][1].data.tag = "object"

\* C7: a create_document call that passes the argument check issues exactly
\* one HTTP request; a 2xx response returns its decoded body (a 2xx body that
\* is not JSON has none: the decoder's error is raised), a non-2xx response
\* or a network failure is raised as an error, and no request is repeated.
C7_ExactlyOneRequest ==
    [][(cres'.op = "create_document" /\ ~BothOrNeither(cres'))
          => /\ Len(requests') = Len(requests) + 1
             /\ SubSeq(requests', 1, Len(requests)) = requests
             /\ LET rsp == cres'.response IN
                IF rsp.kind = "failure" THEN cres'.res = Raised("TransportError")
                ELSE IF rsp.status \notin 200..299 THEN cres'.res = Raised("HTTPStatusError")
                ELSE IF rsp.body = "<html>" THEN cres'.res = Raised("JSONDecodeError")
                ELSE IF rsp.body = "{\"id\": \"doc1\"}"
                THEN cres'.res = Returned(PyDict([id |-> PyStr("doc1")]))
                ELSE cres'.res = Returned(PyDict([id |-> PyStr("doc2")]))
      ]_vars

\* a call answered 500 raised, with one request made in all
C7_Witness ==
    /\ cres.op = "create_document"
    /\ ~BothOrNeither(cres)
    /\ cres.response.kind = "response" /\ cres.response.status = 500
    /\ cres.res = Raised("HTTPStatusError")
    /\ Len(requests) = 1

\* C11: a LineEndpoint built from a line identifier in the identifier pattern
\* and a position p, with a marker style of the enumerated set or the
\* default, is constructed exactly when 0 <= p <= 1, and then stores that
\* identifier and position; outside [0, 1] it fails with a validation error.
C11_LineEndpointAccepted ==
    (/\ last.op = "LineEndpoint"
     /\ Has(last.kw, "line_id") /\ InIDPattern(last.kw.line_id.s)
     /\ Has(last.kw, "position")
     /\ Has(last.kw, "style") => last.kw.style.s \in EndpointStyles)
    => IF 0 <= Num(last.kw.position) /\ Num(last.kw.position) <= One
       THEN /\ last.res.outcome = "ok"
            /\ last.res.obj.fields.line_id = last.kw.line_id
            /\ Num(last.res.obj.fields.position) = Num(last.kw.position)
       ELSE last.res = Failed("ValidationError")

\* C12: after Line.connect_shapes(shape1, shape2, stroke, text) the call has
\* returned, endpoint1 and endpoint2 of the line are ShapeEndpoints whose
\* shapeId is the id of shape1 and of shape2, the line's stroke is the
\* stroke passed in, and a text passed in is in the line's text list.
C12_ConnectShapesConnects ==
    last.op = "connect_shapes"
    => /\ last.res.outcome = "ok"
       /\ last.res.obj.fields.endpoint1.cls = "ShapeEndpoint"
       /\ last.res.obj.fields.endpoint1.fields.shapeId.s = last.kw.shape1.fields.id.s
       /\ last.res.obj.fields.endpoint2.cls = "ShapeEndpoint"
       /\ last.res.obj.fields.endpoint2.fields.shapeId.s = last.kw.shape2.fields.id.s
       /\ last.res.obj.fields.stroke = last.kw.stroke
       /\ last.kw.text # PyNone
          => \E i \in 1..Len(last.res.obj.fields.text.items) :
                LET t == last.res.obj.fields.text.items[i] IN
                t = last.kw.text \/ (t.tag = "model" /\ t.fields.text = last.kw.text)

\* C13: every create_document call that passes the argument check makes one
\* new temporary archive file and opens one handle on it, apart from the
\* files of all earlier calls, which stay as they were; whether the call
\* returns, gets a non-2xx response or a network failure, the file is not
\* deleted and the handle is not closed, so n such calls leave n files.
C13_ArchivesAccumulate ==
    [][(cres'.op = "create_document" /\ ~BothOrNeither(cres'))
          => /\ Len(files') = Len(files) + 1
             /\ SubSeq(files', 1, Len(files)) = files
             /\ files'[Len(files')] = zip_write(
                    IF cres'.document.tag = "None" THEN cres'.json
                    ELSE model_dump_json(cres'.document, TRUE))
             /\ handles' = Append(handles, Len(files'))
             /\ handles'[Len(handles')] \notin {handles[i] : i \in 1..Len(handles)}
             /\ Len(files') = Len(requests')
      ]_vars

\* two calls passed the check, the second met a network failure after the
\* first got a 404, and both archives and both handles are still there
C13_Witness ==
    /\ cres.op = "create_document"
    /\ cres.res.outcome = "TransportError"
    /\ Len(requests) = 2
    /\ Len(files) = 2 /\ Len(handles) = 2
    /\ handles = <<1, 2>>

\* the JSON text of an assigned value
JsonOf(v) ==
    IF v.tag = "float" THEN [tag |-> "number", float |-> TRUE, n |-> v.n]
    ELSE [tag |-> "string", s |-> v.s]

\* the place of an entity in the dump of its root
JsonAt(out, item) == IF item = 0 THEN out ELSE out.members.text.elems[item]

\* the constructor would reject the value for the field
Rejected(name, value) ==
    CASE name = "position" -> ~InRange(value, One)
      [] name = "color" -> ~InColorPattern(value.s)
      [] OTHER -> ~InIDPattern(value.s)

\* C14: an assignment to a field of a constructed entity is not validated:
\* it raises nothing and stores the value as given, also a value that the
\* constructor would reject, and a model_dump_json after it emits that value.
C14_AssignmentNotValidated ==
    [][/\ last'.op = "setattr"
          => /\ last'.res.outcome = "ok"
             /\ Target(last'.res.obj, last'.kw.item).fields[last'.kw.name] = last'.kw.value
       /\ (last.op = "setattr" /\ dres'.op = "model_dump_json" /\ dres'.self = last.res.obj)
          => JsonAt(dres'.out, last.kw.item).members[last.kw.name] = JsonOf(last.kw.value)
      ]_vars

\* a text of a line got the position 1.1, which Text(position=1.1) refuses,
\* and the dump of the line shows it
C14_Witness ==
    /\ last.op = "setattr"
    /\ last.kw.name = "position" /\ last.kw.value = PyFloat(One + 1)
    /\ Rejected(last.kw.name, last.kw.value)
    /\ Text_new([text |-> PyStr("test"), position |-> last.kw.value]).outcome = "ValidationError"
    /\ last.res.obj.fields.text.items[1].fields.position = PyFloat(One + 1)
    /\ dres.op = "model_dump_json" /\ dres.self = last.res.obj
    /\ dres.out.members.text.elems[1].members.position.n = One + 1

====
